---- MODULE Spec2Model ----
(***************************************************************************)
(* Model of exportscript.py: the one-shot export of a Guacamole/KCM        *)
(* database into export.json.                                              *)
(*                                                                         *)
(*   fetch_dropdown_options  parses the enum(...) column declarations      *)
(*   export_to_json          connects, fetches, folds the joined rows into *)
(*                           groups -> connections, writes the document    *)
(*                           and releases cursor and connection            *)
(*                                                                         *)
(* Python values are encoded as follows.                                   *)
(*   None                 the string None (never a database value here)    *)
(*   str (row fields)     TLA+ strings; "" is the empty string             *)
(*   str (column types)   sequences of one-character strings, so that      *)
(*                        strip / replace / split work on characters       *)
(*   dict                 a function; the ordered dict `groups` is a       *)
(*                        sequence of entries in insertion order           *)
(*   list                 a sequence                                       *)
(*   NULL group id        NullGroupId (ids of the database start at 1)     *)
(***************************************************************************)
EXTENDS Integers, Sequences, FiniteSets, TLC

VARIABLES
    pc,               \* position in export_to_json
    conn,             \* local `conn`:   "unbound" | "open" | "closed"
    cursor,           \* local `cursor`: "unbound" | "open" | "closed"
    schema_enums,     \* the literal lists of the enum columns of the schema
    enum_fields,      \* cursor.fetchall() of the INFORMATION_SCHEMA query
    dropdown_options, \* local `dropdown_options`
    rows,             \* cursor.fetchall() of the join query
    idx,              \* number of rows the for loop has processed
    groups,           \* local `groups` (insertion-ordered dict)
    file,             \* export.json
    failed_at,        \* the step that raised, or "none"
    handler           \* the except clause that caught it, or "none"

vars == <<pc, conn, cursor, schema_enums, enum_fields, dropdown_options,
          rows, idx, groups, file, failed_at, handler>>

-----------------------------------------------------------------------------
(* Bounds of the model *)

MaxRows == 3      \* rows returned by the join query
MaxLits == 2      \* literals of one enum declaration

-----------------------------------------------------------------------------
(* Python values *)

None == "None"

NullGroupId == 0

\* bool(v) for a value that is None or a str
Truthy(v) == v # None /\ v # ""

\* a or b
Or(a, b) == IF Truthy(a) THEN a ELSE b

EmptyDict == [k \in {} |-> None]

\* d[k] = v
DictSet(d, k, v) == [y \in DOMAIN d \cup {k} |-> IF y = k THEN v ELSE d[y]]

\* x in lst
InList(x, lst) == \E i \in 1..Len(lst) : lst[i] = x

SeqsUpTo(S, n) == UNION {[1..k -> S] : k \in 0..n}

-----------------------------------------------------------------------------
(* fetch_dropdown_options: parsing of the enum declarations *)

\* the characters of "enum()"
StripChars == {"e", "n", "u", "m", "(", ")"}

RECURSIVE LStrip(_, _)
LStrip(s, chars) ==
    IF s = <<>> THEN s
    ELSE IF Head(s) \in chars THEN LStrip(Tail(s), chars) ELSE s

RECURSIVE RStrip(_, _)
RStrip(s, chars) ==
    IF s = <<>> THEN s
    ELSE IF s[Len(s)] \in chars THEN RStrip(SubSeq(s, 1, Len(s) - 1), chars)
    ELSE s

\* s.strip(chars): drops every leading and trailing character that is in chars
Strip(s, chars) == RStrip(LStrip(s, chars), chars)

\* s.replace(ch, "")
Remove(s, ch) == SelectSeq(s, LAMBDA c : c # ch)

RECURSIVE SplitFrom(_, _, _, _)
SplitFrom(s, sep, cur, acc) ==
    IF s = <<>> THEN Append(acc, cur)
    ELSE IF Head(s) = sep THEN SplitFrom(Tail(s), sep, <<>>, Append(acc, cur))
    ELSE SplitFrom(Tail(s), sep, Append(cur, Head(s)), acc)

\* s.split(sep): always at least one piece, "" gives [""]
Split(s, sep) == SplitFrom(s, sep, <<>>, <<>>)

\* the quotes are removed before the wrapper is stripped
ParseEnumReplaceFirst(column_type) ==
    Split(Strip(Remove(column_type, "'"), StripChars), ",")

\* the quotes are kept
ParseEnumKeepQuotes(column_type) ==
    Split(Strip(column_type, StripChars), ",")

\* column_type.strip("enum()").replace("'", "").split(",")
ParseEnum(column_type) ==
    Split(Remove(Strip(column_type, StripChars), "'"), ",")

RECURSIVE ParseFields(_, _)
\* the for loop over enum_fields, started with the dict d
ParseFields(fields, d) ==
    IF fields = <<>> THEN d
    ELSE ParseFields(Tail(fields),
                     DictSet(d, Head(fields).COLUMN_NAME,
                             ParseEnum(Head(fields).COLUMN_TYPE)))

\* MySQL's COLUMN_TYPE of an enum column: enum('v1','v2',...)
RECURSIVE QuotedList(_)
QuotedList(lits) ==
    IF lits = <<>> THEN <<>>
    ELSE <<"'">> \o Head(lits) \o <<"'">>
         \o (IF Len(lits) > 1 THEN <<",">> ELSE <<>>) \o QuotedList(Tail(lits))

RenderEnum(lits) == <<"e", "n", "u", "m", "(">> \o QuotedList(lits) \o <<")">>

\* one row of the INFORMATION_SCHEMA query for an enum column
EnumField(column, lits) ==
    [COLUMN_NAME |-> column, COLUMN_TYPE |-> RenderEnum(lits)]

FieldsOf(schema) == [i \in 1..Len(schema) |-> EnumField(schema[i].column, schema[i].literals)]

\* enum literals without comma or quote; some begin or end with, or consist
\* of, characters of StripChars
Literals ==
    { <<>>, <<"e">>, <<"s">>, <<")">>, <<"s", "e">>, <<"e", "s">>,
      <<"(", "s", ")">>, <<"e", "n", "u", "m">> }
LitLists == SeqsUpTo(Literals, MaxLits) \ {<<>>}
ColumnNames == {"protocol", "proxy_encryption_method"}

Ssh == <<"s", "s", "h">>
Vnc == <<"v", "n", "c">>
Rdp == <<"r", "d", "p">>

\* the enum columns of a stock schema
SampleSchemas ==
    { <<>>,
      <<[column |-> "protocol", literals |-> <<Ssh, Vnc, Rdp>>]>> }

\* schemas for the parser: one arbitrary declaration, alone or before or after
\* the protocol column's
EnumSchemas ==
    LET Free == {[column |-> c, literals |-> l] : c \in ColumnNames, l \in LitLists}
        Fixed == {[column |-> "protocol", literals |-> <<Ssh, Vnc, Rdp>>]}
    IN  {<<a>> : a \in Free}
        \cup {<<a, f>> : a \in Free, f \in Fixed}
        \cup {<<f, a>> : a \in Free, f \in Fixed}

-----------------------------------------------------------------------------
(* The joined rows *)

\* connection_name and protocol of guacamole_connection, by connection_id
ConnectionNameOf(conn_id) == IF conn_id = 1 THEN "web" ELSE None
ProtocolOf(conn_id) == IF conn_id = 2 THEN "rdp" ELSE None

\* connection_group_name of guacamole_connection_group, by group id; the
\* LEFT JOIN gives NULL when the row has no group
GroupNameOf(group_id) == IF group_id = NullGroupId THEN None ELSE "lab"

NoParameter == [name |-> None, value |-> None]
NoAttribute == [name |-> None, value |-> None]
NoEntity == [name |-> None, type |-> None]

Row(conn_id, group_id, p, a, e) ==
    [connection_id |-> conn_id,
     name |-> ConnectionNameOf(conn_id),
     protocol |-> ProtocolOf(conn_id),
     parameter_name |-> p.name,
     parameter_value |-> p.value,
     attribute_name |-> a.name,
     attribute_value |-> a.value,
     connection_group_id |-> group_id,
     group_name |-> GroupNameOf(group_id),
     entity_name |-> e.name,
     entity_type |-> e.type]

GroupIds == {NullGroupId, 7}

\* name/value pairs of the parameter and attribute tables
Pairs ==
    { [name |-> None, value |-> None],
      [name |-> "hostname", value |-> "10.0.0.1"],
      [name |-> "hostname", value |-> "10.0.0.2"],
      [name |-> "", value |-> "10.0.0.1"],
      [name |-> "", value |-> "10.0.0.2"] }

\* name/type pairs of the entity table, as the joins can present them
Entities ==
    { NoEntity,
      [name |-> "alice", type |-> "USER"],
      [name |-> "bob", type |-> "USER"],
      [name |-> None, type |-> "USER"],
      [name |-> "alice", type |-> "USER_GROUP"],
      [name |-> None, type |-> "USER_GROUP"] }

\* rows that differ in the connection and the group only
IdentityRows ==
    {Row(c, g, NoParameter, NoAttribute, NoEntity) : c \in {1, 2, 3}, g \in GroupIds}

\* rows of one connection that differ in the group and the parameter
ParameterRows ==
    {Row(1, g, p, NoAttribute, NoEntity) : g \in GroupIds, p \in Pairs}

\* rows of one connection that differ in the group and the attribute
AttributeRows ==
    {Row(1, g, NoParameter, a, NoEntity) : g \in GroupIds, a \in Pairs}

\* rows of two connections that differ in the permission entity
EntityRows ==
    {Row(c, NullGroupId, NoParameter, NoAttribute, e) : c \in {1, 2}, e \in Entities}

\* rows that carry a parameter, an attribute and an entity at once
FullRows ==
    { Row(1, NullGroupId, [name |-> "hostname", value |-> "10.0.0.1"],
          [name |-> "weight", value |-> "1"], [name |-> "alice", type |-> "USER"]),
      Row(1, NullGroupId, [name |-> "port", value |-> "22"],
          [name |-> "weight", value |-> "2"], [name |-> "admins", type |-> "USER_GROUP"]) }

RowClasses == {IdentityRows, ParameterRows, AttributeRows, EntityRows, FullRows}

\* results of the join query
RowSeqs == UNION {SeqsUpTo(S, MaxRows) : S \in RowClasses}

\* results of the join query of a small database
SampleRowSeqs == {<<>>, <<Row(1, NullGroupId, NoParameter, NoAttribute, NoEntity)>>}

-----------------------------------------------------------------------------
(* export_to_json: the body of the for loop *)

\* index in gs of the entry with key group_id, 0 when group_id not in gs
GroupIndex(gs, group_id) ==
    IF \E i \in 1..Len(gs) : gs[i].group_id = group_id
    THEN CHOOSE i \in 1..Len(gs) : gs[i].group_id = group_id
    ELSE 0

\* if group_id not in groups: groups[group_id] = {...}
EnsureGroup(gs, row) ==
    IF GroupIndex(gs, row.connection_group_id) # 0 THEN gs
    ELSE Append(gs, [group_id |-> row.connection_group_id,
                     group_name |-> Or(row.group_name, "ROOT"),
                     connections |-> <<>>])

\* index of the first connection of conns with this id
FirstWithId(conns, conn_id) ==
    IF \E i \in 1..Len(conns) : conns[i].connection_id = conn_id
    THEN CHOOSE i \in 1..Len(conns) :
            /\ conns[i].connection_id = conn_id
            /\ \A j \in 1..(i - 1) : conns[j].connection_id # conn_id
    ELSE 0

\* the connection is looked up in every group
FindConnectionAnyGroup(gs, group_id, conn_id) ==
    IF \E g \in 1..Len(gs) : FirstWithId(gs[g].connections, conn_id) # 0
    THEN LET g == CHOOSE h \in 1..Len(gs) :
                     /\ FirstWithId(gs[h].connections, conn_id) # 0
                     /\ \A k \in 1..(h - 1) : FirstWithId(gs[k].connections, conn_id) = 0
         IN  <<g, FirstWithId(gs[g].connections, conn_id)>>
    ELSE <<>>

\* the lookup never finds the connection
FindConnectionNever(gs, group_id, conn_id) == <<>>

\* next((c for c in groups[group_id]['connections'] if ...), None):
\* the place <<group index, connection index>> of the connection, <<>> for None
FindConnection(gs, group_id, conn_id) ==
    LET g == GroupIndex(gs, group_id)
        i == FirstWithId(gs[g].connections, conn_id)
    IN  IF i # 0 THEN <<g, i>> ELSE <<>>

NewConnection(row) ==
    [connection_id |-> row.connection_id,
     name |-> Or(row.name, "Unnamed Connection " \o ToString(row.connection_id)),
     protocol |-> Or(row.protocol, "ssh"),
     parameters |-> EmptyDict,
     attributes |-> EmptyDict,
     users |-> <<>>,
     groups |-> <<>>]

\* a parameter name that is already present keeps its value
AddParameterKeepFirst(c, row) ==
    IF Truthy(row.parameter_name) /\ row.parameter_name \notin DOMAIN c.parameters
    THEN [c EXCEPT !.parameters = DictSet(@, row.parameter_name, row.parameter_value)]
    ELSE c

AddParameter(c, row) ==
    IF Truthy(row.parameter_name)
    THEN [c EXCEPT !.parameters = DictSet(@, row.parameter_name, row.parameter_value)]
    ELSE c

AddAttribute(c, row) ==
    IF Truthy(row.attribute_name)
    THEN [c EXCEPT !.attributes = DictSet(@, row.attribute_name, row.attribute_value)]
    ELSE c

\* the user is appended without the membership test
AddUserAlways(c, row) ==
    IF row.entity_type = "USER"
    THEN [c EXCEPT !.users = Append(@, row.entity_name)]
    ELSE c

AddUser(c, row) ==
    IF row.entity_type = "USER" /\ ~InList(row.entity_name, c.users)
    THEN [c EXCEPT !.users = Append(@, row.entity_name)]
    ELSE c

AddGroup(c, row) ==
    IF row.entity_type = "USER_GROUP" /\ ~InList(row.entity_name, c.groups)
    THEN [c EXCEPT !.groups = Append(@, row.entity_name)]
    ELSE c

\* the four facet updates of one row on its connection object
Update(c, row) == AddGroup(AddUser(AddAttribute(AddParameter(c, row), row), row), row)

\* the new connection is put in front of the list
PrependConnection(conns, c) == <<c>> \o conns

\* groups[group_id]['connections'].append(connection)
AppendConnection(conns, c) == Append(conns, c)

\* one iteration of `for row in rows`
ProcessRow(gs0, row) ==
    LET gs == EnsureGroup(gs0, row)
        g == GroupIndex(gs, row.connection_group_id)
        at == FindConnection(gs, row.connection_group_id, row.connection_id)
    IN  IF at = <<>>
        THEN [gs EXCEPT ![g].connections = AppendConnection(@, Update(NewConnection(row), row))]
        ELSE [gs EXCEPT ![at[1]].connections[at[2]] = Update(@, row)]

\* list(groups.values())
Values(gs) == [i \in 1..Len(gs) |-> [group_name |-> gs[i].group_name,
                                     connections |-> gs[i].connections]]

-----------------------------------------------------------------------------
(* export_to_json: the steps of the function *)

NoFile == [state |-> "absent", data |-> <<>>]

Init ==
    /\ pc = "connect"
    /\ conn = "unbound"
    /\ cursor = "unbound"
    /\ schema_enums = <<>>
    /\ enum_fields = <<>>
    /\ dropdown_options = EmptyDict
    /\ rows = <<>>
    /\ idx = 0
    /\ groups = <<>>
    /\ file = NoFile
    /\ failed_at = "none"
    /\ handler = "none"

\* the except clause that catches an exception of class exc
HandlerOf(exc) ==
    IF exc = "mysql.connector.Error" THEN "except mysql.connector.Error"
    ELSE "except Exception"

\* the exception is swallowed where it is raised and the export goes on to the write
RaiseAndCarryOn(step, exc) ==
    /\ failed_at' = step
    /\ handler' = HandlerOf(exc)
    /\ pc' = "write"

\* an exception raised inside the try block: the matching except clause
\* prints it and control goes to the finally block
Raise(step, exc) ==
    /\ failed_at' = step
    /\ handler' = HandlerOf(exc)
    /\ pc' = "finally"

\* conn = mysql.connector.connect(**db_config)
Connect ==
    /\ pc = "connect"
    /\ conn' = "open"
    /\ pc' = "cursor"
    /\ UNCHANGED <<cursor, schema_enums, enum_fields, dropdown_options, rows,
                   idx, groups, file, failed_at, handler>>

ConnectFails ==
    /\ pc = "connect"
    /\ Raise("connect", "mysql.connector.Error")
    /\ UNCHANGED <<conn, cursor, schema_enums, enum_fields, dropdown_options,
                   rows, idx, groups, file>>

\* cursor = conn.cursor(dictionary=True)
CreateCursor ==
    /\ pc = "cursor"
    /\ cursor' = "open"
    /\ pc' = "dropdown"
    /\ UNCHANGED <<conn, schema_enums, enum_fields, dropdown_options, rows,
                   idx, groups, file, failed_at, handler>>

CreateCursorFails ==
    /\ pc = "cursor"
    /\ Raise("cursor", "mysql.connector.Error")
    /\ UNCHANGED <<conn, cursor, schema_enums, enum_fields, dropdown_options,
                   rows, idx, groups, file>>

\* dropdown_options = fetch_dropdown_options(cursor), on a database whose
\* schema is one of Schemas
FetchDropdownOptions(Schemas) ==
    /\ pc = "dropdown"
    /\ \E schema \in Schemas :
          /\ schema_enums' = schema
          /\ enum_fields' = FieldsOf(schema)
          /\ dropdown_options' = ParseFields(FieldsOf(schema), EmptyDict)
    /\ pc' = "fetch"
    /\ UNCHANGED <<conn, cursor, rows, idx, groups, file, failed_at, handler>>

\* cursor.execute or cursor.fetchall of fetch_dropdown_options raises
FetchDropdownOptionsFails ==
    /\ pc = "dropdown"
    /\ Raise("dropdown", "mysql.connector.Error")
    /\ UNCHANGED <<conn, cursor, schema_enums, enum_fields, dropdown_options,
                   rows, idx, groups, file>>

\* cursor.execute(query); rows = cursor.fetchall(), the result being one of Results
FetchRows(Results) ==
    /\ pc = "fetch"
    /\ rows' \in Results
    /\ pc' = "rows"
    /\ UNCHANGED <<conn, cursor, schema_enums, enum_fields, dropdown_options,
                   idx, groups, file, failed_at, handler>>

FetchRowsFails ==
    /\ pc = "fetch"
    /\ Raise("rows", "mysql.connector.Error")
    /\ UNCHANGED <<conn, cursor, schema_enums, enum_fields, dropdown_options,
                   rows, idx, groups, file>>

\* with no rows the function goes on and writes the document
EarlyReturnSkipped ==
    /\ pc = "rows"
    /\ rows = <<>>
    /\ pc' = "write"
    /\ UNCHANGED <<conn, cursor, schema_enums, enum_fields, dropdown_options,
                   rows, idx, groups, file, failed_at, handler>>

\* if not rows: return   (the finally block still runs)
EarlyReturn ==
    /\ pc = "rows"
    /\ rows = <<>>
    /\ pc' = "finally"
    /\ UNCHANGED <<conn, cursor, schema_enums, enum_fields, dropdown_options,
                   rows, idx, groups, file, failed_at, handler>>

\* one iteration of the for loop
LoopStep ==
    /\ pc = "rows"
    /\ idx < Len(rows)
    /\ groups' = ProcessRow(groups, rows[idx + 1])
    /\ idx' = idx + 1
    /\ UNCHANGED <<pc, conn, cursor, schema_enums, enum_fields, dropdown_options,
                   rows, file, failed_at, handler>>

\* the for loop is exhausted
LoopEnd ==
    /\ pc = "rows"
    /\ rows # <<>>
    /\ idx = Len(rows)
    /\ pc' = "write"
    /\ UNCHANGED <<conn, cursor, schema_enums, enum_fields, dropdown_options,
                   rows, idx, groups, file, failed_at, handler>>

\* export_data = {...}
ExportData == [connections |-> Values(groups), dropdown_options |-> dropdown_options]

\* with open('export.json', 'w') as json_file: json.dump(export_data, ...)
Write ==
    /\ pc = "write"
    /\ file' = [state |-> "complete", data |-> ExportData]
    /\ pc' = "finally"
    /\ UNCHANGED <<conn, cursor, schema_enums, enum_fields, dropdown_options,
                   rows, idx, groups, failed_at, handler>>

\* open raises (nothing is written) or json.dump raises (a truncated file is left)
WriteFails ==
    /\ pc = "write"
    /\ file' \in {NoFile, [state |-> "partial", data |-> <<>>]}
    /\ Raise("write", "OSError")
    /\ UNCHANGED <<conn, cursor, schema_enums, enum_fields, dropdown_options,
                   rows, idx, groups>>

\* the connection is left open
FinallyCursorOnly ==
    /\ pc = "finally"
    /\ cursor' = IF cursor = "open" THEN "closed" ELSE cursor
    /\ pc' = "done"
    /\ UNCHANGED <<conn, schema_enums, enum_fields, dropdown_options, rows, idx,
                   groups, file, failed_at, handler>>

\* finally: close the cursor and the connection if the names are bound
Finally ==
    /\ pc = "finally"
    /\ cursor' = IF cursor = "open" THEN "closed" ELSE cursor
    /\ conn' = IF conn = "open" THEN "closed" ELSE conn
    /\ pc' = "done"
    /\ UNCHANGED <<schema_enums, enum_fields, dropdown_options, rows, idx,
                   groups, file, failed_at, handler>>

\* the export of a database with a stock schema and any of the row sequences
Next ==
    \/ Connect
    \/ ConnectFails
    \/ CreateCursor
    \/ CreateCursorFails
    \/ FetchDropdownOptions(SampleSchemas)
    \/ FetchDropdownOptionsFails
    \/ FetchRows(RowSeqs)
    \/ FetchRowsFails
    \/ EarlyReturn
    \/ LoopStep
    \/ LoopEnd
    \/ Write
    \/ WriteFails
    \/ Finally

Spec == Init /\ [][Next]_vars

\* the export of a small database with any of the enum schemas
NextEnum ==
    \/ Connect
    \/ ConnectFails
    \/ CreateCursor
    \/ CreateCursorFails
    \/ FetchDropdownOptions(EnumSchemas)
    \/ FetchDropdownOptionsFails
    \/ FetchRows(SampleRowSeqs)
    \/ FetchRowsFails
    \/ EarlyReturn
    \/ LoopStep
    \/ LoopEnd
    \/ Write
    \/ WriteFails
    \/ Finally

SpecEnum == Init /\ [][NextEnum]_vars

-----------------------------------------------------------------------------
(* Vocabulary of the properties *)

\* the rows the for loop has processed
Processed == SubSeq(rows, 1, idx)

\* the places <<g, i>> of the connection objects of groups
Places == UNION {{<<g, i>> : i \in 1..Len(groups[g].connections)} : g \in 1..Len(groups)}

ConnectionAt(at) == groups[at[1]].connections[at[2]]

\* the processed rows of group identifier group_id and connection conn_id
RowsOf(group_id, conn_id) ==
    {k \in 1..idx : /\ rows[k].connection_group_id = group_id
                    /\ rows[k].connection_id = conn_id}

\* the processed rows that belong to the connection object at a place
RowsAt(at) == RowsOf(groups[at[1]].group_id, ConnectionAt(at).connection_id)

Last(K) == CHOOSE k \in K : \A j \in K : j <= k

NoRepeat(lst) == \A i, j \in 1..Len(lst) : lst[i] = lst[j] => i = j

RECURSIVE FirstSeen(_)
\* the distinct elements of a sequence, in the order of their first occurrence
FirstSeen(seq) ==
    IF seq = <<>> THEN <<>>
    ELSE LET init == FirstSeen(SubSeq(seq, 1, Len(seq) - 1))
             x == seq[Len(seq)]
         IN  IF InList(x, init) THEN init ELSE Append(init, x)

Finished == pc = "done" /\ failed_at = "none"

-----------------------------------------------------------------------------
(* C1: one group per connection *)

\* C1 as stated: every connection_id is found in at most one group's
\* connections list, and that group is the one of the first row that carried
\* the connection_id (first-seen group wins).
C1_FirstSeenGroupWins ==
    \A at \in Places :
        LET conn_id == ConnectionAt(at).connection_id
            first == CHOOSE k \in 1..idx :
                        /\ rows[k].connection_id = conn_id
                        /\ \A j \in 1..(k - 1) : rows[j].connection_id # conn_id
        IN  /\ groups[at[1]].group_id = rows[first].connection_group_id
            /\ \A other \in Places :
                  ConnectionAt(other).connection_id = conn_id => other = at

\* C1 amended: a connection_id is found at most once in each group's
\* connections list, and it is found in a group's list exactly when a processed
\* row carried it under that group identifier; so a connection_id that rows
\* carry under several group identifiers has one connection object in each of
\* those groups, not only in the first.
C1_OnePerGroupSeenWith ==
    /\ \A k \in 1..idx : GroupIndex(groups, rows[k].connection_group_id) # 0
    /\ \A g \in 1..Len(groups) : \A conn_id \in {rows[k].connection_id : k \in 1..Len(rows)} :
          Cardinality({i \in 1..Len(groups[g].connections) :
                          groups[g].connections[i].connection_id = conn_id})
            = IF RowsOf(groups[g].group_id, conn_id) # {} THEN 1 ELSE 0

\* a finished export in which one connection_id has an object in two groups
C1_Witness ==
    /\ Finished
    /\ file.state = "complete"
    /\ \E a, b \in Places :
          /\ a[1] # b[1]
          /\ ConnectionAt(a).connection_id = ConnectionAt(b).connection_id

-----------------------------------------------------------------------------
(* C2: zero rows *)

\* C2 as stated: when the join query returns zero rows the export still
\* produces a document, whose connections list is empty and which carries the
\* dropdown options.
C2_EmptyExportWritten ==
    (Finished /\ rows = <<>>) =>
        /\ file.state = "complete"
        /\ file.data.connections = <<>>
        /\ file.data.dropdown_options = dropdown_options

\* C2 amended: when the join query returns zero rows the function returns
\* early without an error and writes no document (the dropdown options are
\* dropped with it); cursor and connection are closed.
C2_EmptyResultWritesNothing ==
    (Finished /\ rows = <<>>) =>
        /\ file = NoFile
        /\ handler = "none"
        /\ cursor = "closed"
        /\ conn = "closed"

\* an export of zero rows that has ended, the dropdown options fetched
C2_Witness ==
    /\ Finished
    /\ rows = <<>>
    /\ DOMAIN dropdown_options # {}

-----------------------------------------------------------------------------
(* C3: null names *)

\* C3: a row whose parameter, attribute or entity name is null adds no entry
\* to parameters, attributes, users or groups: no connection ever has None as
\* a parameter or attribute name, as a user or as a group.
C3_NullNameAddsNothing ==
    \A at \in Places :
        /\ None \notin DOMAIN ConnectionAt(at).parameters
        /\ None \notin DOMAIN ConnectionAt(at).attributes
        /\ ~InList(None, ConnectionAt(at).users)
        /\ ~InList(None, ConnectionAt(at).groups)

-----------------------------------------------------------------------------
(* C4: one connection object per (group, connection) pair *)

\* C4: after every prefix of the rows the connection identifiers of each
\* group's connections list are pairwise distinct, and a (group_id,
\* connection_id) pair carried by more than one processed row has exactly one
\* connection object.
C4_Dedup ==
    /\ \A a, b \in Places :
          (a[1] = b[1] /\ ConnectionAt(a).connection_id = ConnectionAt(b).connection_id)
              => a = b
    /\ \A k \in 1..idx :
          LET K == RowsOf(rows[k].connection_group_id, rows[k].connection_id)
          IN  Cardinality(K) > 1 =>
                Cardinality({at \in Places : RowsAt(at) = K}) = 1

\* a finished export where some pair was carried by more than one row
C4_Witness ==
    /\ Finished
    /\ file.state = "complete"
    /\ \E at \in Places : Cardinality(RowsAt(at)) > 1

-----------------------------------------------------------------------------
(* C5: users and groups hold no element twice *)

\* C5: after every prefix of the rows, no connection's users list and no
\* connection's groups list holds an element twice.
C5_UsersGroupsNoRepeat ==
    \A at \in Places :
        /\ NoRepeat(ConnectionAt(at).users)
        /\ NoRepeat(ConnectionAt(at).groups)

\* two processed rows of one connection name the same user and a third names
\* a user group of that name: the user is listed once, the group once
C5_Witness ==
    \E at \in Places : \E j, k, m \in RowsAt(at) :
        /\ j < k
        /\ rows[j].entity_type = "USER" /\ rows[k].entity_type = "USER"
        /\ rows[j].entity_name = rows[k].entity_name
        /\ rows[m].entity_type = "USER_GROUP"
        /\ ConnectionAt(at).users = <<rows[j].entity_name>>
        /\ ConnectionAt(at).groups = <<rows[m].entity_name>>

-----------------------------------------------------------------------------
(* C6: first-seen order *)

\* C6: the groups are in the order in which their identifiers (the null one
\* included, named ROOT) first occur in the processed rows, the connections of
\* each group are in the order in which their identifiers first occur among the
\* rows of that group, and the document lists them in that order.
C6_OrderPreserved ==
    /\ [g \in 1..Len(groups) |-> groups[g].group_id]
          = FirstSeen([k \in 1..idx |-> rows[k].connection_group_id])
    /\ \A g \in 1..Len(groups) :
          LET mine == SelectSeq(Processed,
                        LAMBDA r : r.connection_group_id = groups[g].group_id)
          IN  /\ [i \in 1..Len(groups[g].connections) |->
                      groups[g].connections[i].connection_id]
                    = FirstSeen([k \in 1..Len(mine) |-> mine[k].connection_id])
              /\ groups[g].group_id = NullGroupId => groups[g].group_name = "ROOT"
    /\ file.state = "complete" =>
          /\ Len(file.data.connections) = Len(groups)
          /\ \A g \in 1..Len(groups) :
                /\ file.data.connections[g].group_name = groups[g].group_name
                /\ file.data.connections[g].connections = groups[g].connections

\* a written document whose groups and connections are not in ascending
\* order of identifier: the null group comes second, and a group lists a
\* larger connection identifier before a smaller one
C6_Witness ==
    /\ file.state = "complete"
    /\ Len(groups) = 2
    /\ groups[2].group_id = NullGroupId
    /\ file.data.connections[2].group_name = "ROOT"
    /\ \E g \in 1..Len(groups) :
          /\ Len(groups[g].connections) = 2
          /\ groups[g].connections[1].connection_id
                > groups[g].connections[2].connection_id

-----------------------------------------------------------------------------
(* C7: last write wins *)

\* the processed rows of the connection object at a place whose parameter
\* (attribute) name is n
ParameterRowsAt(at, n) == {k \in RowsAt(at) : rows[k].parameter_name = n}
AttributeRowsAt(at, n) == {k \in RowsAt(at) : rows[k].attribute_name = n}

ParameterNames == {rows[k].parameter_name : k \in 1..Len(rows)}
AttributeNames == {rows[k].attribute_name : k \in 1..Len(rows)}

\* C7 as stated: when several rows of a connection carry the same non-null
\* parameter (attribute) name with different values, the mapping has one entry
\* for the name, with the value of the last of those rows.
C7_LastWriteWinsNonNull ==
    \A at \in Places :
        /\ \A n \in ParameterNames \ {None} :
              LET K == ParameterRowsAt(at, n)
              IN  (\E j, k \in K : rows[j].parameter_value # rows[k].parameter_value)
                    => /\ n \in DOMAIN ConnectionAt(at).parameters
                       /\ ConnectionAt(at).parameters[n] = rows[Last(K)].parameter_value
        /\ \A n \in AttributeNames \ {None} :
              LET K == AttributeRowsAt(at, n)
              IN  (\E j, k \in K : rows[j].attribute_value # rows[k].attribute_value)
                    => /\ n \in DOMAIN ConnectionAt(at).attributes
                       /\ ConnectionAt(at).attributes[n] = rows[Last(K)].attribute_value

\* C7 amended: the same for every parameter (attribute) name that is neither
\* null nor the empty string; the mapping has no other entries, so a name that
\* is null or empty has none.
C7_LastWriteWins ==
    \A at \in Places :
        /\ DOMAIN ConnectionAt(at).parameters
              = {n \in ParameterNames : Truthy(n) /\ ParameterRowsAt(at, n) # {}}
        /\ \A n \in DOMAIN ConnectionAt(at).parameters :
              ConnectionAt(at).parameters[n]
                 = rows[Last(ParameterRowsAt(at, n))].parameter_value
        /\ DOMAIN ConnectionAt(at).attributes
              = {n \in AttributeNames : Truthy(n) /\ AttributeRowsAt(at, n) # {}}
        /\ \A n \in DOMAIN ConnectionAt(at).attributes :
              ConnectionAt(at).attributes[n]
                 = rows[Last(AttributeRowsAt(at, n))].attribute_value

\* a connection whose rows gave one parameter name two different values, the
\* later of which it holds
C7_Witness ==
    \E at \in Places : \E j, k \in RowsAt(at) :
        /\ j < k
        /\ Truthy(rows[j].parameter_name)
        /\ rows[j].parameter_name = rows[k].parameter_name
        /\ rows[j].parameter_value # rows[k].parameter_value
        /\ k = Last(ParameterRowsAt(at, rows[k].parameter_name))
        /\ ConnectionAt(at).parameters[rows[k].parameter_name] = rows[k].parameter_value

-----------------------------------------------------------------------------
(* C8: a failed connect or fetch writes nothing *)

\* C8: on a run in which the connect, the schema-metadata fetch or the row
\* fetch raised, the write of export.json is never reached and nothing is
\* written.
C8_FailedFetchWritesNothing ==
    failed_at \in {"connect", "dropdown", "rows"} =>
        /\ file = NoFile
        /\ pc \in {"finally", "done"}

\* a run that has ended after the row fetch raised
C8_Witness ==
    /\ pc = "done"
    /\ failed_at = "rows"
    /\ handler = "except mysql.connector.Error"

-----------------------------------------------------------------------------
(* C9: enum parsing *)

\* the last declaration of the schema for the column of declaration k
LastOfColumn(k) ==
    Last({j \in 1..Len(schema_enums) : schema_enums[j].column = schema_enums[k].column})

\* C9: every declaration enum('v1',...,'vn') presented with a column name
\* makes the extractor map the column name to <<v1,...,vn>>: so it is after the
\* declaration is processed, and the returned mapping holds, for each column,
\* the literals of the last declaration presented for it.
C9_EnumParsed ==
    /\ DOMAIN dropdown_options = {enum_fields[k].COLUMN_NAME : k \in 1..Len(enum_fields)}
    /\ Len(enum_fields) = Len(schema_enums)
    /\ \A k \in 1..Len(schema_enums) :
          /\ ParseFields(SubSeq(enum_fields, 1, k), EmptyDict)[schema_enums[k].column]
                = schema_enums[k].literals
          /\ dropdown_options[schema_enums[k].column]
                = schema_enums[LastOfColumn(k)].literals

\* the written document maps a column to literals that consist of characters
\* of "enum()"
C9_Witness ==
    /\ file.state = "complete"
    /\ \E k \in 1..Len(schema_enums) :
          /\ schema_enums[k].literals = << <<"e", "n", "u", "m">>, <<")">> >>
          /\ file.data.dropdown_options[schema_enums[k].column]
                = << <<"e", "n", "u", "m">>, <<")">> >>

-----------------------------------------------------------------------------
(* C10: cursor and connection are released on every path *)

\* C10: when the function has ended, a connection that was opened is closed
\* and a cursor that was created is closed, whichever way the run ended; when
\* the connect failed nothing was there to close and the exception was caught.
C10_ResourcesReleased ==
    pc = "done" =>
        /\ conn = (IF failed_at = "connect" THEN "unbound" ELSE "closed")
        /\ cursor = (IF failed_at \in {"connect", "cursor"} THEN "unbound" ELSE "closed")
        /\ failed_at = "none" <=> handler = "none"

\* a run that ended with a failure while writing the file, both closed
C10_Witness ==
    /\ pc = "done"
    /\ failed_at = "write"
    /\ file.state = "partial"
    /\ conn = "closed"
    /\ cursor = "closed"

====
